---- MODULE Spec2Model ----
(***************************************************************************)
(* Grouping / hierarchy engine of src/store/lib/grouping.ts.               *)
(*                                                                         *)
(* Encodings                                                               *)
(*   - a nullable field is a sequence of length 0 (null / undefined) or 1  *)
(*   - a Card[] is an array object [ref, elems]: ref tells whether it is   *)
(*     the caller's array or one allocated inside the call                 *)
(*   - a "|"-joined string (group key, group type) is the sequence of its  *)
(*     tokens, "|" being a token of its own: "asset|2" is                  *)
(*     <<"asset", "|", "2">>                                               *)
(*   - an element of Grouping.groupings (string | number) is a record      *)
(*     [isNum, n, s]: s is the property key JavaScript derives from it     *)
(***************************************************************************)
EXTENDS Integers, Sequences, FiniteSets, TLC

----------------------------------------------------------------------------
(* Bounds of the model *)

MaxCards == 3

MaxGroupings == 3

----------------------------------------------------------------------------
(* Constants of the program *)

NONE == "none"

LEVEL_0 == "level0"

UPGRADE == "upgrade"

GroupingType ==
  {"none", "subtype", "type", "slot", "level", "base_upgrades", "faction",
   "encounter_set", "cost", "cycle", "pack"}

----------------------------------------------------------------------------
(* Values *)

Null == <<>>

Some(x) == <<x>>

IsNull(o) == Len(o) = 0

Val(o) == o[1]

CallerRef == "caller"

FreshRef == "fresh"

Arr(ref, elems) == [ref |-> ref, elems |-> elems]

Range(s) == {s[k] : k \in DOMAIN s}

StrKey(s) == [isNum |-> FALSE, n |-> 0, s |-> s]

NumKey(n) == [isNum |-> TRUE, n |-> n, s |-> ToString(n)]

----------------------------------------------------------------------------
(* Inputs: metadata index and card catalogue *)

Pack(code, cycle, position, reprint) ==
  [code |-> code, cycle_code |-> cycle, position |-> position, reprint |-> reprint]

metadata ==
  [cycles |->
     [c \in {"core", "dwl", "eoe"} |->
        [code |-> c,
         position |-> CASE c = "core" -> 1 [] c = "dwl" -> 2 [] c = "eoe" -> 3]],
   packs |->
     ("core" :> Pack("core", "core", 1, FALSE)) @@
     ("dwl"  :> Pack("dwl", "dwl", 1, FALSE)) @@
     ("tmm"  :> Pack("tmm", "dwl", 2, FALSE)) @@
     ("dwlp" :> Pack("dwlp", "dwl", 3, TRUE)) @@
     ("dwlc" :> Pack("dwlc", "dwl", 4, TRUE)) @@
     ("eoep" :> Pack("eoep", "eoe", 1, FALSE)) @@
     ("eoec" :> Pack("eoec", "eoe", 2, FALSE)),
   encounterSets |->
     ("rats" :> [name |-> "Rats"]) @@
     ("ancient_evils" :> [name |-> "Ancient Evils"])]

Card(code, type, faction, faction2, subtype, xp, cost, enc, pack, perm, slot) ==
  [code |-> code, type_code |-> type, faction_code |-> faction,
   faction2_code |-> faction2, subtype_code |-> subtype, xp |-> xp,
   cost |-> cost, encounter_code |-> enc, pack_code |-> pack,
   permanent |-> perm, real_slot |-> slot]

Catalogue ==
  { Card(1, "asset", "guardian", Null, Null, Some(0), Some(2), Null,
         "core", FALSE, Some("Hand")),
    Card(2, "event", "seeker", Some("rogue"), Null, Some(3), Some(2), Null,
         "tmm", FALSE, Null),
    Card(3, "asset", "neutral", Null, Some("weakness"), Null, Null, Null,
         "eoep", TRUE, Null),
    Card(4, "enemy", "mythos", Null, Some("ultra-rare"), Null, Null,
         Some("rats"), "dwl", FALSE, Null),
    Card(5, "treachery", "mythos", Null, Some("basicweakness"), Null, Some(-2),
         Some("ancient_evils"), "eoep", FALSE, Null) }

SeqsUpTo(S, n) == UNION {[1..k -> S] : k \in 0..n}

IsInjective(s) == \A a, b \in DOMAIN s : s[a] = s[b] => a = b

CardLists == {s \in SeqsUpTo(Catalogue, MaxCards) : IsInjective(s)}

(* Dimension lists: every list of at most two dimensions, and every list   *)
(* of up to MaxGroupings dimensions over DeepGroupings (the same array     *)
(* handed back, buckets created on sight, numeric keys, pre-seeded buckets *)
(* that drop cards).                                                       *)
DeepGroupings == {"none", "type", "cost", "subtype"}

GroupingLists ==
  {<<>>} \cup {<<a>> : a \in GroupingType}
         \cup {<<a, b>> : a, b \in GroupingType}
         \cup SeqsUpTo(DeepGroupings, MaxGroupings)

SortFunctions == {"by_code", "all_equal"}

----------------------------------------------------------------------------
(* Comparators of ./sorting and Array.prototype.sort *)

IndexOf(seq, x) ==
  IF x \in Range(seq) THEN CHOOSE k \in DOMAIN seq : seq[k] = x ELSE Len(seq) + 1

TypeOrder ==
  <<"investigator", "asset", "event", "skill", "location", "enemy",
    "enemy_location", "treachery", "scenario", "act", "agenda", "story">>

FactionOrder ==
  <<"guardian", "seeker", "rogue", "mystic", "survivor", "multiclass",
    "neutral", "mythos">>

Collation ==
  <<"Accessory", "Ally", "Ancient Evils", "Arcane", "Body", "Hand", "Rats",
    "Tarot">>

sortNumerical(a, b) == a - b

sortTypesByOrder(a, b) == IndexOf(TypeOrder, a.s) - IndexOf(TypeOrder, b.s)

sortByFactionOrder(a, b) == IndexOf(FactionOrder, a.s) - IndexOf(FactionOrder, b.s)

collatorCompare(a, b) == IndexOf(Collation, a) - IndexOf(Collation, b)

sortBySlots(a, b) ==
  CASE a.s = b.s -> 0
    [] a.s = NONE -> 1
    [] b.s = NONE -> 0 - 1
    [] a.s = "permanent" -> 1
    [] b.s = "permanent" -> 0 - 1
    [] OTHER -> collatorCompare(a.s, b.s)

EncounterSetName(code) ==
  IF code \in DOMAIN metadata.encounterSets
  THEN metadata.encounterSets[code].name
  ELSE ""

sortByEncounterSet(a, b) ==
  CASE a.s = b.s -> 0
    [] a.s = NONE -> 0 - 1
    [] b.s = NONE -> 1
    [] OTHER -> collatorCompare(EncounterSetName(a.s), EncounterSetName(b.s))

(* (a, b) => a === NONE ? -1 : b === NONE ? 1 : sortNumerical(a, b) *)
sortNoneFirst(a, b) ==
  IF ~a.isNum /\ a.s = NONE THEN 0 - 1
  ELSE IF ~b.isNum /\ b.s = NONE THEN 1
  ELSE sortNumerical(a.n, b.n)

sortByCyclePosition(a, b) ==
  metadata.cycles[a.s].position - metadata.cycles[b.s].position

sortByPackPosition(a, b) ==
  LET aCycle == metadata.cycles[metadata.packs[a.s].cycle_code]
      bCycle == metadata.cycles[metadata.packs[b.s].cycle_code]
  IN IF aCycle.position # bCycle.position
     THEN aCycle.position - bCycle.position
     ELSE metadata.packs[a.s].position - metadata.packs[b.s].position

Comparator(S, cmp(_, _)) == [p \in S \X S |-> cmp(p[1], p[2])]

(* Array.prototype.sort is stable: x goes after every element that does    *)
(* not compare greater than it.                                            *)
RECURSIVE InsertSorted(_, _, _)
InsertSorted(sorted, x, cmp) ==
  IF sorted = <<>> THEN <<x>>
  ELSE LET last == sorted[Len(sorted)]
       IN IF cmp[<<last, x>>] <= 0
          THEN Append(sorted, x)
          ELSE Append(InsertSorted(SubSeq(sorted, 1, Len(sorted) - 1), x, cmp), last)

RECURSIVE SortFrom(_, _, _)
SortFrom(sorted, rest, cmp) ==
  IF rest = <<>> THEN sorted
  ELSE SortFrom(InsertSorted(sorted, Head(rest), cmp), Tail(rest), cmp)

ArraySort(seq, cmp) == SortFrom(<<>>, seq, cmp)

----------------------------------------------------------------------------
(* Partitioner *)

EmptyGrouping(type) == [data |-> <<>>, groupings |-> <<>>, type |-> type]

toGroupingResult(grouping) ==
  [k \in DOMAIN grouping.groupings |->
     LET key == grouping.groupings[k]
     IN [cards |-> Arr(FreshRef, grouping.data[key.s]),
         key |-> <<IF key.isNum THEN ToString(key.n) ELSE key.s>>,
         type |-> <<grouping.type>>]]

RemoveAt(seq, k) == SubSeq(seq, 1, k - 1) \o SubSeq(seq, k + 1, Len(seq))

DeleteKey(data, s) == [d \in DOMAIN data \ {s} |-> data[d]]

(* the for loop of omitEmptyGroupings, i being its 0-based index *)
RECURSIVE omitEmptyLoop(_, _)
omitEmptyLoop(grouping, i) ==
  IF ~(i < Len(grouping.groupings)) THEN grouping
  ELSE LET key == grouping.groupings[i + 1]
       IN IF Len(grouping.data[key.s]) = 0
          THEN omitEmptyLoop(
                 [grouping EXCEPT !.data = DeleteKey(@, key.s),
                                  !.groupings = RemoveAt(@, i + 1)],
                 i + 1)
          ELSE omitEmptyLoop(grouping, (i + 1) + 1)

omitEmptyGroupings(grouping) == omitEmptyLoop(grouping, 0)

(* reduceByKey with the bucket replaced, not appended to, on a second card *)
RECURSIVE reduceByKey_overwrite(_, _, _)
reduceByKey_overwrite(acc, cards, keys) ==
  IF cards = <<>> THEN acc
  ELSE LET card == Head(cards)
           code == Head(keys)
       IN reduceByKey_overwrite(
            IF code.s \notin DOMAIN acc.data
            THEN [acc EXCEPT !.data = (code.s :> <<card>>) @@ @,
                             !.groupings = Append(@, code)]
            ELSE [acc EXCEPT !.data[code.s] = <<card>>],
            Tail(cards), Tail(keys))

(* the reduce callback shared by the dimensions whose buckets are created  *)
(* on first sight: keys[k] is the bucket key derived from cards[k]         *)
RECURSIVE reduceByKey(_, _, _)
reduceByKey(acc, cards, keys) ==
  IF cards = <<>> THEN acc
  ELSE LET card == Head(cards)
           code == Head(keys)
       IN reduceByKey(
            IF code.s \notin DOMAIN acc.data
            THEN [acc EXCEPT !.data = (code.s :> <<card>>) @@ @,
                             !.groupings = Append(@, code)]
            ELSE [acc EXCEPT !.data[code.s] = Append(@, card)],
            Tail(cards), Tail(keys))

(* the reduce callback of the dimensions with pre-seeded buckets; a key    *)
(* for which acc.data has no bucket drops the card (groupBySubtypeCode)    *)
RECURSIVE reduceFixed(_, _, _)
reduceFixed(acc, cards, keys) ==
  IF cards = <<>> THEN acc
  ELSE LET card == Head(cards)
           code == Head(keys)
       IN reduceFixed(
            IF code \in DOMAIN acc.data
            THEN [acc EXCEPT !.data[code] = Append(@, card)]
            ELSE acc,
            Tail(cards), Tail(keys))

SortGroupings(grouping, cmp(_, _)) ==
  [grouping EXCEPT
     !.groupings = ArraySort(@, Comparator(Range(grouping.groupings), cmp))]

groupByTypeCode(cards) ==
  LET keys == [k \in DOMAIN cards |-> StrKey(cards[k].type_code)]
      result == reduceByKey(EmptyGrouping("type"), cards, keys)
  IN toGroupingResult(SortGroupings(omitEmptyGroupings(result), sortTypesByOrder))

groupBySlots(cards) ==
  LET slot(card) == IF card.permanent THEN "permanent"
                    ELSE IF IsNull(card.real_slot) THEN NONE
                    ELSE Val(card.real_slot)
      keys == [k \in DOMAIN cards |-> StrKey(slot(cards[k]))]
      result == reduceByKey(EmptyGrouping("slot"), cards, keys)
  IN toGroupingResult(SortGroupings(omitEmptyGroupings(result), sortBySlots))

groupByLevel(cards) ==
  LET level(card) == IF IsNull(card.xp) THEN StrKey(NONE) ELSE NumKey(Val(card.xp))
      keys == [k \in DOMAIN cards |-> level(cards[k])]
      results == reduceByKey(EmptyGrouping("level"), cards, keys)
  IN toGroupingResult(SortGroupings(omitEmptyGroupings(results), sortNoneFirst))

groupByLevel0VsUpgrade(cards) ==
  LET keys == [k \in DOMAIN cards |->
                 IF IsNull(cards[k].xp) \/ Val(cards[k].xp) = 0
                 THEN LEVEL_0 ELSE UPGRADE]
      initial == [data |-> (LEVEL_0 :> <<>>) @@ (UPGRADE :> <<>>),
                  groupings |-> <<StrKey(LEVEL_0), StrKey(UPGRADE)>>,
                  type |-> "base_upgrades"]
      results == reduceFixed(initial, cards, keys)
  IN toGroupingResult(omitEmptyGroupings(results))

groupByFaction(cards) ==
  LET faction(card) == IF ~IsNull(card.faction2_code) THEN "multiclass"
                       ELSE card.faction_code
      keys == [k \in DOMAIN cards |-> StrKey(faction(cards[k]))]
      results == reduceByKey(EmptyGrouping("faction"), cards, keys)
  IN toGroupingResult(SortGroupings(omitEmptyGroupings(results), sortByFactionOrder))

groupByEncounterSet(cards) ==
  LET code(card) == IF IsNull(card.encounter_code) THEN NONE
                    ELSE Val(card.encounter_code)
      keys == [k \in DOMAIN cards |-> StrKey(code(cards[k]))]
      results == reduceByKey(EmptyGrouping("encounter_set"), cards, keys)
  IN toGroupingResult(SortGroupings(omitEmptyGroupings(results), sortByEncounterSet))

groupByCost(cards) ==
  LET cost(card) == IF IsNull(card.cost) THEN StrKey(NONE) ELSE NumKey(Val(card.cost))
      keys == [k \in DOMAIN cards |-> cost(cards[k])]
      results == reduceByKey(EmptyGrouping("cost"), cards, keys)
  IN toGroupingResult(SortGroupings(omitEmptyGroupings(results), sortNoneFirst))

groupByCycle(cards) ==
  LET cycle(card) ==
        LET pack == metadata.packs[card.pack_code]
        IN metadata.cycles[pack.cycle_code].code
      keys == [k \in DOMAIN cards |-> StrKey(cycle(cards[k]))]
      results == reduceByKey(EmptyGrouping("cycle"), cards, keys)
  IN toGroupingResult(SortGroupings(omitEmptyGroupings(results), sortByCyclePosition))

reprintSuffix(cardType) == IF cardType = "encounter" THEN "c" ELSE "p"

(* isReprint without the test of the reprint mark *)
isReprint_anyPack(packs, code) == code \in DOMAIN packs

isReprint(packs, code) == code \in DOMAIN packs /\ packs[code].reprint

(* the pack a card is bucketed under in the pack dimension *)
resolvePack(card) ==
  LET cardType == IF ~IsNull(card.encounter_code) THEN "encounter" ELSE "player"
      pack == metadata.packs[card.pack_code]
      reprintPackCode == pack.cycle_code \o reprintSuffix(cardType)
  IN IF isReprint(metadata.packs, reprintPackCode)
     THEN metadata.packs[reprintPackCode]
     ELSE pack

groupByPack(cards) ==
  LET keys == [k \in DOMAIN cards |-> StrKey(resolvePack(cards[k]).code)]
      results == reduceByKey(EmptyGrouping("pack"), cards, keys)
  IN toGroupingResult(SortGroupings(omitEmptyGroupings(results), sortByPackPosition))

groupBySubtypeCode(cards) ==
  LET keys == [k \in DOMAIN cards |->
                 IF IsNull(cards[k].subtype_code) THEN NONE
                 ELSE Val(cards[k].subtype_code)]
      initial == [data |-> (NONE :> <<>>) @@ ("weakness" :> <<>>)
                             @@ ("basicweakness" :> <<>>),
                  groupings |-> <<StrKey(NONE), StrKey("weakness"),
                                  StrKey("basicweakness")>>,
                  type |-> "subtype"]
      results == reduceFixed(initial, cards, keys)
  IN toGroupingResult(omitEmptyGroupings(results))

(* cards is an array object; only "none" hands the same object back *)
applyGrouping(cards, grouping) ==
  CASE grouping = "none" ->
         <<[cards |-> cards, key |-> <<"all">>, type |-> <<"none">>]>>
    [] grouping = "subtype" -> groupBySubtypeCode(cards.elems)
    [] grouping = "type" -> groupByTypeCode(cards.elems)
    [] grouping = "slot" -> groupBySlots(cards.elems)
    [] grouping = "level" -> groupByLevel(cards.elems)
    [] grouping = "base_upgrades" -> groupByLevel0VsUpgrade(cards.elems)
    [] grouping = "faction" -> groupByFaction(cards.elems)
    [] grouping = "encounter_set" -> groupByEncounterSet(cards.elems)
    [] grouping = "cost" -> groupByCost(cards.elems)
    [] grouping = "cycle" -> groupByCycle(cards.elems)
    [] grouping = "pack" -> groupByPack(cards.elems)

----------------------------------------------------------------------------
(* Hierarchy builder: getGroupedCards *)

VARIABLES
  argGroupings,  \* the _groupings argument
  cards,         \* the elements of the caller's cards array
  groupings,     \* const groupings
  data,          \* const data, spliced in place
  hierarchy,     \* const hierarchy: key -> GroupTreeEntry
  i,             \* index of the for loop over the dimensions (0-based)
  j,             \* index of the while loop over data (0-based)
  group,         \* const group of the last while iteration
  expanded,      \* const expanded of the last while iteration
  pc             \* position in getGroupedCards

vars ==
  <<argGroupings, cards, groupings, data, hierarchy, i, j,
    group, expanded, pc>>

NoGroup == [cards |-> Arr(FreshRef, <<>>), key |-> <<>>, type |-> <<>>]

(* String.prototype.includes / split / join on token sequences *)
Includes(str, tok) == tok \in Range(str)

RECURSIVE SplitFrom(_, _, _, _)
SplitFrom(str, sep, current, acc) ==
  IF str = <<>> THEN Append(acc, current)
  ELSE IF Head(str) = sep
       THEN SplitFrom(Tail(str), sep, <<>>, Append(acc, current))
       ELSE SplitFrom(Tail(str), sep, Append(current, Head(str)), acc)

Split(str, sep) == SplitFrom(str, sep, <<>>, <<>>)

RECURSIVE Join(_, _)
Join(parts, sep) ==
  IF parts = <<>> THEN <<>>
  ELSE IF Len(parts) = 1 THEN parts[1]
  ELSE parts[1] \o <<sep>> \o Join(Tail(parts), sep)

DropLast(seq) == SubSeq(seq, 1, Len(seq) - 1)

(* parentOf with slice(1) in place of slice(0, -1) *)
parentOf_dropFirst(key) ==
  IF Includes(key, "|") THEN Some(Join(Tail(Split(key, "|")), "|")) ELSE Null

(* group.key.includes("|") ? group.key.split("|").slice(0, -1).join("|") : null *)
parentOf(key) ==
  IF Includes(key, "|") THEN Some(Join(DropLast(Split(key, "|")), "|")) ELSE Null

(* `${a}|${b}` *)
Template(a, b) == a \o <<"|">> \o b

GroupTreeEntry(key, type, count, parent) ==
  [key |-> key, type |-> type, count |-> count, parent |-> parent]

(* hierarchy[key] = entry *)
Assign(h, key, entry) ==
  [k \in DOMAIN h \cup {key} |-> IF k = key THEN entry ELSE h[k]]

(* childKey without the parent's key in front *)
childKey_noPrefix(parent, g) == g.key

childKey(parent, g) == Template(parent.key, g.key)

(* childType without the parent's type in front *)
childType_noPrefix(parent, g) == g.type

childType(parent, g) == Template(parent.type, g.type)

(* g.key = ...; g.type = ... for every g of expanded *)
prefixExpanded(parent, exp) ==
  [k \in DOMAIN exp |->
     [exp[k] EXCEPT !.key = childKey(parent, exp[k]),
                    !.type = childType(parent, exp[k])]]

(* hierarchy[g.key] = {...} for every g of expanded, in order *)
RECURSIVE registerChildren(_, _, _)
registerChildren(h, parent, exp) ==
  IF exp = <<>> THEN h
  ELSE LET g == Head(exp)
       IN registerChildren(
            Assign(h, g.key,
                   GroupTreeEntry(g.key, g.type, Len(g.cards.elems), Some(parent.key))),
            parent, Tail(exp))

(* the else branch: one entry per group of data, parent null *)
RECURSIVE registerTopLevel(_, _)
registerTopLevel(h, groups) ==
  IF groups = <<>> THEN h
  ELSE LET g == Head(groups)
       IN registerTopLevel(
            Assign(h, g.key, GroupTreeEntry(g.key, g.type, Len(g.cards.elems), Null)),
            Tail(groups))

(* Splice with the children appended at the end of the list *)
Splice_atEnd(seq, at, exp) == SubSeq(seq, 1, at) \o SubSeq(seq, at + 2, Len(seq)) \o exp

(* Splice with a delete count of 0: the expanded group stays in the list *)
Splice_keepGroup(seq, at, exp) == SubSeq(seq, 1, at) \o exp \o SubSeq(seq, at + 1, Len(seq))

(* data.splice(j, 1, ...expanded), j 0-based *)
Splice(seq, at, exp) == SubSeq(seq, 1, at) \o exp \o SubSeq(seq, at + 2, Len(seq))

compareCards(fn, a, b) ==
  CASE fn = "by_code" -> a.code - b.code
    [] fn = "all_equal" -> 0

sortCards(elems, fn) ==
  ArraySort(elems, [p \in Range(elems) \X Range(elems) |-> compareCards(fn, p[1], p[2])])

Init ==
  /\ argGroupings \in GroupingLists
  /\ cards \in CardLists
  /\ groupings = <<>>
  /\ data = <<>>
  /\ hierarchy = <<>>
  /\ i = 0
  /\ j = 0
  /\ group = NoGroup
  /\ expanded = <<>>
  /\ pc = "call"

(* lines 401-407: default dimension, first partition, branch on the length *)
Start ==
  /\ pc = "call"
  /\ groupings' = IF Len(argGroupings) # 0 THEN argGroupings ELSE <<"none">>
  /\ data' = applyGrouping(Arr(CallerRef, cards), groupings'[1])
  /\ hierarchy' = <<>>
  /\ i' = 1
  /\ pc' = IF Len(groupings') > 1 THEN "for" ELSE "else"
  /\ UNCHANGED <<argGroupings, cards, j, group, expanded>>

(* line 408: the for test holds, line 411; group and expanded are scoped   *)
(* to one iteration of the while loop, none has run in this pass yet       *)
EnterPass ==
  /\ pc = "for"
  /\ i < Len(groupings)
  /\ j' = 0
  /\ group' = NoGroup
  /\ expanded' = <<>>
  /\ pc' = "while"
  /\ UNCHANGED <<argGroupings, cards, groupings, data, hierarchy, i>>

(* lines 413-449: one iteration of the while loop *)
Expand ==
  /\ pc = "while"
  /\ j < Len(data)
  /\ LET grouping == groupings[i + 1]
         g == data[j + 1]
         exp == prefixExpanded(g, applyGrouping(g.cards, grouping))
         own == Assign(hierarchy, g.key,
                       GroupTreeEntry(g.key, g.type, Len(g.cards.elems), parentOf(g.key)))
     IN /\ group' = g
        /\ expanded' = exp
        /\ hierarchy' = registerChildren(own, g, exp)
        /\ data' = Splice(data, j, exp)
        /\ j' = j + Len(exp)
  /\ UNCHANGED <<argGroupings, cards, groupings, i, pc>>

(* line 413 fails: the while loop ends, i++ *)
ExitPass ==
  /\ pc = "while"
  /\ ~(j < Len(data))
  /\ i' = i + 1
  /\ pc' = "for"
  /\ UNCHANGED <<argGroupings, cards, groupings, data, hierarchy,
                 j, group, expanded>>

(* line 408 fails: the for loop ends *)
ExitLoop ==
  /\ pc = "for"
  /\ ~(i < Len(groupings))
  /\ pc' = "sort"
  /\ UNCHANGED <<argGroupings, cards, groupings, data, hierarchy,
                 i, j, group, expanded>>

(* lines 451-460 *)
RegisterLeaves ==
  /\ pc = "else"
  /\ hierarchy' = registerTopLevel(hierarchy, data)
  /\ pc' = "sort"
  /\ UNCHANGED <<argGroupings, cards, groupings, data, i, j,
                 group, expanded>>

(* lines 462-466: sort every group's array in place and return; an array   *)
(* that is the caller's is sorted for the caller too. sortFunction, the    *)
(* caller's comparison function, is read nowhere else.                     *)
SortGroups ==
  /\ pc = "sort"
  /\ \E sortFunction \in SortFunctions :
       /\ data' = [k \in DOMAIN data |->
                     [data[k] EXCEPT !.cards.elems = sortCards(@, sortFunction)]]
       /\ cards' = IF \E k \in DOMAIN data : data[k].cards.ref = CallerRef
                   THEN sortCards(cards, sortFunction)
                   ELSE cards
  /\ pc' = "done"
  /\ UNCHANGED <<argGroupings, groupings, hierarchy, i, j, group, expanded>>

Next ==
  \/ Start
  \/ EnterPass
  \/ Expand
  \/ ExitPass
  \/ ExitLoop
  \/ RegisterLeaves
  \/ SortGroups

Spec == Init /\ [][Next]_vars

----------------------------------------------------------------------------
(* What a state shows of the partitioner: its last call's input, dimension *)
(* and result. After Start that is the first partition of the caller's     *)
(* cards; after an iteration of the while loop, the expansion of group.    *)

AfterStart == pc \in {"for", "else"} /\ i = 1

AfterExpand == pc = "while" /\ group.key # <<>>

Observed ==
  IF AfterStart
  THEN {[in |-> cards, dim |-> groupings[1], out |-> data]}
  ELSE IF AfterExpand
  THEN {[in |-> group.cards.elems, dim |-> groupings[i + 1], out |-> expanded]}
  ELSE {}

RECURSIVE Flatten(_)
Flatten(groups) ==
  IF groups = <<>> THEN <<>>
  ELSE Head(groups).cards.elems \o Flatten(Tail(groups))

Occurrences(seq, x) == Cardinality({k \in DOMAIN seq : seq[k] = x})

IsPartition(groups, input) ==
  LET all == Flatten(groups)
  IN /\ \A c \in Range(input) : Occurrences(all, c) = 1
     /\ Range(all) \subseteq Range(input)
     /\ Len(all) = Len(input)

LastSegment(str) == str[Len(str)]

----------------------------------------------------------------------------
(* C1: no group the partitioner returns has an empty card list: every      *)
(* bucket that received no card is removed, the pre-seeded buckets of      *)
(* base_upgrades and subtype included. Stated for the dimensions that have *)
(* buckets to remove; "none" hands its single bucket back as it is.        *)
C1_NoEmptyGroup ==
  \A o \in Observed :
    o.dim # "none" => \A k \in DOMAIN o.out : Len(o.out[k].cards.elems) > 0

(* C2: for every dimension but subtype the returned buckets partition the  *)
(* input: each input card is in exactly one bucket, once, and no other     *)
(* card is in any bucket.                                                  *)
C2_Partition ==
  \A o \in Observed : o.dim # "subtype" => IsPartition(o.out, o.in)

C2_Witness ==
  \E o \in Observed :
    /\ o.dim = "faction"
    /\ Len(o.in) >= 3
    /\ Len(o.out) >= 2
    /\ \E k \in DOMAIN o.out : Len(o.out[k].cards.elems) >= 2

(* C4: a call leaves the caller's card sequence as it was: no step of      *)
(* getGroupedCards changes its elements or their order.                    *)
C4_CardsUnchanged == [][cards' = cards]_vars

(* C5: the synthetic reprint code of a card and the bucket it lands in     *)
ReprintCodeOf(c) ==
  metadata.packs[c.pack_code].cycle_code
    \o (IF IsNull(c.encounter_code) THEN "p" ELSE "c")

MarkedReprint(code) ==
  code \in DOMAIN metadata.packs /\ metadata.packs[code].reprint

BucketKeyOf(o, c) ==
  LastSegment((CHOOSE g \in Range(o.out) : c \in Range(g.cards.elems)).key)

(* C5 as stated: in the pack dimension a card is in the bucket keyed by    *)
(* its reprint code if and only if that pack exists and is marked reprint, *)
(* and otherwise in the bucket keyed by its own pack_code.                 *)
C5_ReprintIff ==
  \A o \in Observed :
    o.dim = "pack" =>
      \A c \in Range(o.in) :
        /\ BucketKeyOf(o, c) = ReprintCodeOf(c) <=> MarkedReprint(ReprintCodeOf(c))
        /\ ~MarkedReprint(ReprintCodeOf(c)) => BucketKeyOf(o, c) = c.pack_code

(* C5 amended: in the pack dimension a card is in the bucket keyed by its  *)
(* reprint code if that pack exists and is marked reprint, and otherwise   *)
(* in the bucket keyed by its own pack_code (which may be the reprint code *)
(* itself, when the card's own pack carries that code without the mark).   *)
C5_ReprintResolution ==
  \A o \in Observed :
    o.dim = "pack" =>
      \A c \in Range(o.in) :
        BucketKeyOf(o, c) =
          IF MarkedReprint(ReprintCodeOf(c)) THEN ReprintCodeOf(c) ELSE c.pack_code

C5_Witness ==
  \E o \in Observed :
    /\ o.dim = "pack"
    /\ \E c \in Range(o.in) :
         MarkedReprint(ReprintCodeOf(c)) /\ ReprintCodeOf(c) # c.pack_code
    /\ \E c \in Range(o.in) :
         ~MarkedReprint(ReprintCodeOf(c)) /\ ReprintCodeOf(c) = c.pack_code
    /\ \E c \in Range(o.in) :
         /\ ~MarkedReprint(ReprintCodeOf(c))
         /\ ReprintCodeOf(c) \in DOMAIN metadata.packs
         /\ ReprintCodeOf(c) # c.pack_code

----------------------------------------------------------------------------
(* The tree the dimension list implies, by recursion on the depth: the     *)
(* groups of depth d in pre-order.                                         *)

RECURSIVE ExpandAll(_, _)
ExpandAll(groups, dim) ==
  IF groups = <<>> THEN <<>>
  ELSE prefixExpanded(Head(groups), applyGrouping(Head(groups).cards, dim))
         \o ExpandAll(Tail(groups), dim)

RECURSIVE LevelGroups(_)
LevelGroups(d) ==
  IF d = 1 THEN applyGrouping(Arr(CallerRef, cards), groupings[1])
  ELSE ExpandAll(LevelGroups(d - 1), groupings[d])

Segments(key) == Split(key, "|")

Depth(key) == Len(Segments(key))

Keys(groups) == [k \in DOMAIN groups |-> groups[k].key]

Children(k) == {c \in DOMAIN hierarchy : hierarchy[c].parent = Some(k)}

RECURSIVE SumCounts(_)
SumCounts(S) ==
  IF S = {} THEN 0
  ELSE LET c == CHOOSE x \in S : TRUE
       IN hierarchy[c].count + SumCounts(S \ {c})

ParentsPresent ==
  \A k \in DOMAIN hierarchy :
    ~IsNull(hierarchy[k].parent) => Val(hierarchy[k].parent) \in DOMAIN hierarchy

(* the dimension that produced the children of entry k *)
ChildDimension(k) == LastSegment(hierarchy[CHOOSE c \in Children(k) : TRUE].type)

(* C3 as stated: in the returned hierarchy every parent key is a key of    *)
(* the hierarchy, and every entry with a direct child has a count equal to *)
(* the sum of its direct children's counts. Stated for the entries that    *)
(* have a direct child holding a card, so that a child left with no card   *)
(* does not decide it.                                                     *)
C3_ParentCountIsSum ==
  pc = "done" =>
    /\ ParentsPresent
    /\ \A k \in DOMAIN hierarchy :
         (\E c \in Children(k) : hierarchy[c].count > 0)
           => hierarchy[k].count = SumCounts(Children(k))

(* C3 amended: in the returned hierarchy every parent key is a key of the  *)
(* hierarchy; an entry whose direct children come from a dimension other   *)
(* than subtype has a count equal to the sum of their counts, and one      *)
(* whose children come from subtype a count of at least that sum.          *)
C3_ParentConsistency ==
  pc = "done" =>
    /\ ParentsPresent
    /\ \A k \in DOMAIN hierarchy :
         Children(k) # {} =>
           IF ChildDimension(k) # "subtype"
           THEN hierarchy[k].count = SumCounts(Children(k))
           ELSE hierarchy[k].count >= SumCounts(Children(k))

C3_Witness ==
  /\ pc = "done"
  /\ \E k \in DOMAIN hierarchy :
       /\ Cardinality(Children(k)) >= 2
       /\ ChildDimension(k) # "subtype"
       /\ hierarchy[k].count >= 2
  /\ \E k \in DOMAIN hierarchy :
       /\ Children(k) # {}
       /\ ChildDimension(k) = "subtype"
       /\ hierarchy[k].count > SumCounts(Children(k))
  /\ \E k \in DOMAIN hierarchy :
       /\ ~IsNull(hierarchy[k].parent)
       /\ ~IsNull(hierarchy[Val(hierarchy[k].parent)].parent)

(* the N dimension names joined by "|" *)
TypePath == Join([k \in DOMAIN groupings |-> <<groupings[k]>>], "|")

(* C6: after the call, every element of data has a key of exactly N        *)
(* segments, the type of the N dimension names joined by "|", and a        *)
(* hierarchy entry under its key whose count is the length of its card     *)
(* list; and every group of every depth below N has an entry whose count   *)
(* is its own card count.                                                  *)
C6_LeavesAndIntermediates ==
  pc = "done" =>
    /\ \A k \in DOMAIN data :
         /\ Depth(data[k].key) = Len(groupings)
         /\ data[k].type = TypePath
         /\ data[k].key \in DOMAIN hierarchy
         /\ hierarchy[data[k].key].count = Len(data[k].cards.elems)
    /\ \A d \in 1..(Len(groupings) - 1) :
         \A g \in Range(LevelGroups(d)) :
           /\ g.key \in DOMAIN hierarchy
           /\ hierarchy[g.key].count = Len(g.cards.elems)
           /\ hierarchy[g.key].type = g.type

(* cards {type asset, cost 2}, {type event, cost 2}, {type asset, no cost} *)
(* under [type, cost]                                                      *)
C6_Witness ==
  /\ pc = "done"
  /\ groupings = <<"type", "cost">>
  /\ Keys(data) = << <<"asset", "|", "none">>, <<"asset", "|", "2">>,
                     <<"event", "|", "2">> >>
  /\ \A k \in DOMAIN data : Len(data[k].cards.elems) = 1
  /\ hierarchy[<<"asset">>].count = 2
  /\ hierarchy[<<"event">>].count = 1

DistinctKeys(groups) ==
  \A a, b \in DOMAIN groups : groups[a].key = groups[b].key => a = b

EntriesKept ==
  \A k \in DOMAIN hierarchy : k \in DOMAIN hierarchy' /\ hierarchy'[k] = hierarchy[k]

(* C7: the keys of the groups in data are pairwise distinct at every       *)
(* depth, and no hierarchy entry, once written, is overwritten by a        *)
(* different one.                                                          *)
C7_KeyUniqueness == [](DistinctKeys(data)) /\ [][EntriesKept]_vars

C7_Witness ==
  /\ pc = "done"
  /\ Len(groupings) = 3
  /\ Len(data) >= 3
  /\ \E a, b \in DOMAIN data :
       /\ a # b
       /\ LastSegment(data[a].key) = LastSegment(data[b].key)
       /\ data[a].key[1] # data[b].key[1]

FixedSubtypes == {NONE, "weakness", "basicweakness"}

SubtypeOf(c) == IF IsNull(c.subtype_code) THEN NONE ELSE Val(c.subtype_code)

(* C8: subtype applied as a second or later dimension to a non-empty group *)
(* none of whose cards has one of the three fixed subtypes produces no     *)
(* child, and the group's own entry, with its own card count, is recorded. *)
C8_NoChildren ==
  (/\ AfterExpand
   /\ groupings[i + 1] = "subtype"
   /\ group.cards.elems # <<>>
   /\ \A c \in Range(group.cards.elems) : SubtypeOf(c) \notin FixedSubtypes)
  => /\ expanded = <<>>
     /\ hierarchy[group.key].count = Len(group.cards.elems)

(* C9: in a pass every group is expanded once and no child again: the      *)
(* groups before j are children of this pass, the groups from j on are     *)
(* still to expand; the children of a group stand together where it stood, *)
(* in the partitioner's order; and after each pass data is the pre-order   *)
(* sequence of the groups of that depth.                                   *)
C9_PreOrder ==
  /\ pc = "while" =>
       /\ j <= Len(data)
       /\ \A k \in 1..j : Depth(data[k].key) = i + 1
       /\ \A k \in (j + 1)..Len(data) : Depth(data[k].key) = i
  /\ AfterExpand =>
       /\ Len(expanded) <= j
       /\ SubSeq(data, j - Len(expanded) + 1, j) = expanded
       /\ \A k \in DOMAIN expanded : parentOf(expanded[k].key) = Some(group.key)
  /\ pc \in {"for", "sort"} => data = LevelGroups(i)
  /\ pc = "done" => Keys(data) = Keys(LevelGroups(Len(groupings)))

C9_Witness ==
  /\ pc = "sort"
  /\ Len(groupings) = 3
  /\ Len(data) >= 3
  /\ \E a \in DOMAIN data : a + 1 \in DOMAIN data
       /\ parentOf(data[a].key) = parentOf(data[a + 1].key)
       /\ \E b \in DOMAIN data : data[b].key[1] # data[a].key[1]

(* a ranking of the positions of the call: the passes still to run, the  *)
(* groups still to expand in the running pass, the steps after the loops   *)
Rank ==
  CASE pc = "call" -> <<Len(argGroupings) + 1, 0, 0>>
    [] pc = "for" -> <<Len(groupings) - i, Len(data) + 2, 0>>
    [] pc = "while" -> <<Len(groupings) - i, (Len(data) - j) + 1, 0>>
    [] pc = "else" -> <<0, 1, 0>>
    [] pc = "sort" -> <<0, 0, 1>>
    [] pc = "done" -> <<0, 0, 0>>

InNat(r) == \A k \in DOMAIN r : r[k] >= 0

LexLess(r, s) ==
  \/ r[1] < s[1]
  \/ r[1] = s[1] /\ r[2] < s[2]
  \/ r[1] = s[1] /\ r[2] = s[2] /\ r[3] < s[3]

StepsDown == pc = "while" /\ pc' = "while" => Len(data') - j' = (Len(data) - j) - 1

(* the positions of the call; each but "done" has a step: the guards of   *)
(* EnterPass and ExitLoop, and of Expand and ExitPass, are complementary   *)
Positions == {"call", "for", "while", "else", "sort", "done"}

(* C10: the call terminates: each iteration of the while loop lowers       *)
(* data.length - j by exactly one, whatever the number of children; every  *)
(* step lowers a rank that is bounded below; and the number of passes is   *)
(* the number of dimensions minus one.                                     *)
C10_Terminates ==
  /\ [][StepsDown /\ LexLess(Rank', Rank)]_vars
  /\ [](InNat(Rank) /\ pc \in Positions)
  /\ [](pc = "done" => i - 1 = Len(groupings) - 1)

C10_Witness ==
  /\ AfterExpand
  /\ expanded = <<>>
  /\ j < Len(data)
  /\ i = 2

====
